---- MODULE Spec2Model ----
(***************************************************************************)
(* Job orchestration core of backend/main.py: the dual-backend job store   *)
(* (Redis with an in-process dict as fallback), the three-tier fallback    *)
(* orchestrator (Vidu API, HuggingFace, mock video) with its polling loop, *)
(* and the HTTP handlers that create jobs, read their status and serve the *)
(* artifact.                                                               *)
(***************************************************************************)
EXTENDS Integers, Sequences, FiniteSets, TLC

\* ------------------------------------------------------------------ bounds
\* Number of job ids (uuid4 values) a behaviour may allocate.
MaxJobs == 1
\* Attempts of the polling loop: stands for range(120) of poll_vidu_task.
MaxPollAttempts == 2
\* Job ids used when the job store is exercised on its own.
MaxStoreJobs == 2

JobIds == 1..MaxJobs
StoreJobIds == 1..MaxStoreJobs
None == "None"
\* Characters of a prompt: whitespace and one other.
Whitespace == {" ", "\t"}
\* Prompts a request may carry: empty, whitespace only, and one with text
\* between whitespace.
Prompts == {<<>>, <<" ">>, <<"\t", " ">>, <<" ", "a", "\t">>}

\* ------------------------------------------------------------------ state
VARIABLES
    redisClient,   \* redis_client is not None (decided once, at import)
    redisUp,       \* the Redis server answers calls right now
    redis,         \* Redis keys job:<id> -> record (json)
    mem,           \* VIDEO_GENERATION_STATUS
    files,         \* ./videos/<job_id>.mp4 -> content, None when absent
    nextId,        \* next unused job id
    pc,            \* position of each job's video_generation_process task
    running,       \* the task that holds the event loop, 0 when it is free
    attempt,       \* poll requests made so far by poll_vidu_task, per job
    taskId,        \* task_id of video_generation_process is set, per job
    submitCalls,   \* requests.post calls to the Vidu submit endpoint, per job
    hfCalls,       \* calls of use_huggingface_fallback, per job
    mockCalls,     \* calls of use_mock_video_fallback, per job
    tier,          \* tier whose artifact the orchestration produced, per job
    chat,          \* progress of handle_whatsapp_video_generation, per job
    lastCreate     \* answer of the last POST /api/generate-video (status code)

vars == <<redisClient, redisUp, redis, mem, files, nextId, pc, running, attempt,
          taskId, submitCalls, hfCalls, mockCalls, tier, chat, lastCreate>>

storeVars == <<redis, mem>>
taskVars == <<pc, running, attempt, taskId, submitCalls, hfCalls, mockCalls,
              tier, chat>>

\* ------------------------------------------------------------- str.strip()
RECURSIVE LStrip(_)
LStrip(s) ==
    IF s # <<>> /\ Head(s) \in Whitespace THEN LStrip(Tail(s)) ELSE s

RECURSIVE RStrip(_)
RStrip(s) ==
    IF s # <<>> /\ s[Len(s)] \in Whitespace
    THEN RStrip(SubSeq(s, 1, Len(s) - 1)) ELSE s

RECURSIVE StripSpacesOnly(_)
StripSpacesOnly(s) ==
    IF s # <<>> /\ Head(s) = " " THEN StripSpacesOnly(Tail(s))
    ELSE IF s # <<>> /\ s[Len(s)] = " "
    THEN StripSpacesOnly(SubSeq(s, 1, Len(s) - 1)) ELSE s
Strip(s) == RStrip(LStrip(s))

\* -------------------------------------------------------------- job store
Put(f, j, r) == [k \in (DOMAIN f) \cup {j} |-> IF k = j THEN r ELSE f[k]]

\* store_job_data: (redis, mem) after storing data under j while the server
\* is reachable (up) or not.
StoreRedis(j, data, up) ==
    IF redisClient /\ up THEN Put(redis, j, data) ELSE redis
StoreMemNoFallback(j, data, up) == mem
StoreMem(j, data, up) ==
    IF redisClient /\ up THEN mem ELSE Put(mem, j, data)

\* get_job_data: the Redis branch returns when the key holds data.
FromRedis(j) == redisClient /\ redisUp /\ j \in DOMAIN redis
Found(j) == FromRedis(j) \/ j \in DOMAIN mem
GetJobData(j) == IF FromRedis(j) THEN redis[j] ELSE mem[j]

\* dict.update that forgets the fields it is not given.
MergeDropsOthers(cur, updates) ==
    [f \in DOMAIN cur |-> IF f \in DOMAIN updates THEN updates[f] ELSE None]
\* dict.update
Merge(cur, updates) ==
    [f \in DOMAIN cur |-> IF f \in DOMAIN updates THEN updates[f] ELSE cur[f]]

\* update_job_data, with the server reachable or not (up2) at its store call.
\* A record read from the dict is the stored object itself, so dict.update
\* changes it in place whatever store_job_data does next.
UpdatedRedis(j, updates, up2) ==
    IF ~Found(j) THEN redis
    ELSE LET merged == Merge(GetJobData(j), updates)
         IN IF redisClient /\ up2 THEN Put(redis, j, merged) ELSE redis
UpdatedMem(j, updates, up2) ==
    IF ~Found(j) THEN mem
    ELSE LET merged == Merge(GetJobData(j), updates)
         IN IF FromRedis(j) /\ redisClient /\ up2 THEN mem ELSE Put(mem, j, merged)

UpdateJobData(j, updates) ==
    \E up2 \in BOOLEAN :
        /\ (redisClient /\ Found(j)) \/ up2 = redisUp
        /\ redis' = UpdatedRedis(j, updates, up2)
        /\ mem' = UpdatedMem(j, updates, up2)
        /\ redisUp' = up2

\* ------------------------------------------------------------------- Init
NoResp == [code |-> 0, detail |-> None, status |-> None, message |-> None,
           video_url |-> None]

Init ==
    /\ redisClient \in BOOLEAN
    /\ redisUp = redisClient
    /\ redis = <<>>
    /\ mem = <<>>
    /\ files = [j \in JobIds |-> None]
    /\ nextId = 1
    /\ pc = [j \in JobIds |-> "none"]
    /\ running = 0
    /\ attempt = [j \in JobIds |-> 0]
    /\ taskId = [j \in JobIds |-> FALSE]
    /\ submitCalls = [j \in JobIds |-> 0]
    /\ hfCalls = [j \in JobIds |-> 0]
    /\ mockCalls = [j \in JobIds |-> 0]
    /\ tier = [j \in JobIds |-> None]
    /\ chat = [j \in JobIds |-> None]
    /\ lastCreate = 0

\* ---------------------------------------------------------- HTTP handlers
InitialRecord(p) ==
    [status |-> "processing", message |-> "Video generation has started",
     video_url |-> None, video_path |-> None, prompt |-> p]

\* Lines 88-106: the record is stored and the task is created; the task does
\* not run before the handler returns.
CreateJob(p) ==
    /\ nextId \in JobIds
    /\ redis' = StoreRedis(nextId, InitialRecord(p), redisUp)
    /\ mem' = StoreMem(nextId, InitialRecord(p), redisUp)
    /\ pc' = [pc EXCEPT ![nextId] = "scheduled"]
    /\ nextId' = nextId + 1
    /\ lastCreate' = 200
    /\ UNCHANGED <<redisClient, redisUp, files, running, attempt, taskId,
                   submitCalls, hfCalls, mockCalls, tier, chat>>

\* POST /api/generate-video
GenerateVideo(p) ==
    /\ running = 0
    /\ IF Strip(p) = <<>>
       THEN /\ lastCreate' = 400
            /\ UNCHANGED <<redisClient, redisUp, storeVars, files, nextId, taskVars>>
       ELSE CreateJob(p)
\* GET /api/status/{job_id}: the response for job j in the current state.
StatusResponse(j) ==
    IF ~Found(j)
    THEN [NoResp EXCEPT !.code = 404, !.detail = "Job ID not found"]
    ELSE [NoResp EXCEPT !.code = 200,
                        !.status = GetJobData(j).status,
                        !.message = GetJobData(j).message,
                        !.video_url = GetJobData(j).video_url]

Terminal == {"completed", "error"}

\* The handler runs when the event loop is free, and changes nothing.
GetStatus(j) ==
    /\ running = 0
    /\ StatusResponse(j).code \in {200, 404}
    /\ UNCHANGED vars

\* download_video with the file looked up before the status.
DownloadResponseFileFirst(j) ==
    IF ~Found(j)
    THEN [NoResp EXCEPT !.code = 404, !.detail = "Job ID not found"]
    ELSE IF GetJobData(j).video_path = None \/ files[j] = None
    THEN [NoResp EXCEPT !.code = 404, !.detail = "Video file not found"]
    ELSE IF GetJobData(j).status # "completed"
    THEN [NoResp EXCEPT !.code = 400, !.detail = "Video not ready for download"]
    ELSE [NoResp EXCEPT !.code = 200, !.detail = files[j]]
\* GET /api/download/{job_id}: the response for job j in the current state.
DownloadResponse(j) ==
    IF ~Found(j)
    THEN [NoResp EXCEPT !.code = 404, !.detail = "Job ID not found"]
    ELSE IF GetJobData(j).status # "completed"
    THEN [NoResp EXCEPT !.code = 400, !.detail = "Video not ready for download"]
    ELSE IF GetJobData(j).video_path = None \/ files[j] = None
    THEN [NoResp EXCEPT !.code = 404, !.detail = "Video file not found"]
    ELSE [NoResp EXCEPT !.code = 200, !.detail = files[j]]

\* The handler runs when the event loop is free, and changes nothing.
DownloadVideo(j) ==
    /\ running = 0
    /\ DownloadResponse(j).code \in {200, 400, 404}
    /\ UNCHANGED vars

\* ------------------------------------------- video_generation_process task
\* Outcomes of the calls the task makes to the outside.
SubmitOutcomes == {"exception", "non200", "no_task_id", "task_id"}
PollOutcomes == {"exception", "non200", "pending", "unrecognized",
                 "success_url", "success_no_url", "success_empty", "failed"}
CopyOutcomes == {"ok", "missing", "copy_error"}

\* The task of job j moves on to label. It gives up the event loop only in
\* asyncio.sleep (the polling loop) and when it ends: every request it makes
\* is a blocking call. For a job of the chat bot the end of
\* video_generation_process is the return to line 314 of its caller, which
\* goes on without giving up the event loop.
Returns(j, label) == label = "done" /\ chat[j] # None
Goto(j, label) ==
    /\ pc' = [pc EXCEPT ![j] = IF Returns(j, label) THEN "wa_notify" ELSE label]
    /\ running' = IF label \in {"sleep", "done"} /\ ~Returns(j, label)
                  THEN 0 ELSE j

\* Lines 383-396: the first status update, then the credential check.
Start(j) ==
    /\ pc[j] = "scheduled"
    /\ running = 0
    /\ UpdateJobData(j, [message |-> "Connecting to Vidu AI model...",
                         status |-> "processing"])
    /\ \E hasKey \in BOOLEAN : Goto(j, IF hasKey THEN "submit" ELSE "hf")
    /\ UNCHANGED <<redisClient, files, nextId, attempt, submitCalls, hfCalls,
                   mockCalls, tier, taskId,
                   lastCreate, chat>>

\* Lines 413-429 and 445-456: the submit request; every failure lands in the
\* except clause, which calls use_huggingface_fallback.
AfterSubmitAnyAnswer(outcome) == IF outcome # "exception" THEN "poll" ELSE "hf"
AfterSubmit(outcome) == IF outcome = "task_id" THEN "poll" ELSE "hf"

Submit(j) ==
    /\ pc[j] = "submit" /\ running = j
    /\ submitCalls' = [submitCalls EXCEPT ![j] = @ + 1]
    /\ \E outcome \in SubmitOutcomes :
          /\ taskId' = [taskId EXCEPT ![j] = (outcome = "task_id")]
          /\ Goto(j, AfterSubmit(outcome))
    /\ UNCHANGED <<redisClient, redisUp, storeVars, files, nextId, attempt,
                   hfCalls, mockCalls, tier,
                   lastCreate, chat>>

\* poll_vidu_task: one iteration of for attempt in range(120). A None result
\* makes video_generation_process raise (line 445) and fall back.
\* The loop giving up on every response that is not a known pending state.
AfterPollStrict(outcome) ==
    CASE outcome = "success_url" -> "download"
      [] outcome = "pending" -> "sleep"
      [] OTHER -> "hf"
AfterPoll(outcome) ==
    CASE outcome = "success_url" -> "download"
      [] outcome \in {"success_no_url", "success_empty", "failed"} -> "hf"
      [] OTHER -> "sleep"

\* Lines 463-496: the request of one iteration and what the loop does with
\* its response.
PollStep(j, outcome) ==
    /\ \/ pc[j] = "poll" /\ running = j
       \/ pc[j] = "sleep" /\ running = 0
    /\ attempt' = [attempt EXCEPT ![j] = @ + 1]
    /\ Goto(j, AfterPoll(outcome))
    /\ UNCHANGED <<redisClient, redisUp, storeVars, files, nextId,
                   submitCalls, hfCalls, mockCalls, tier, taskId,
                   lastCreate, chat>>

\* The loop without its bound.
PollUnbounded(j) == \E outcome \in PollOutcomes : PollStep(j, outcome)
\* for attempt in range(120)
Poll(j) ==
    /\ attempt[j] < MaxPollAttempts
    /\ \E outcome \in PollOutcomes : PollStep(j, outcome)

\* The timeout taken for a fatal error of the job.
PollTimeoutIsFatal(j) ==
    /\ pc[j] = "sleep" /\ running = 0
    /\ attempt[j] = MaxPollAttempts
    /\ Goto(j, "mock_failed")
    /\ UNCHANGED <<redisClient, redisUp, storeVars, files, nextId, attempt,
                   submitCalls, hfCalls, mockCalls, tier, taskId,
                   lastCreate, chat>>
\* Lines 498-499, then 445: the loop has used its attempts.
PollTimeout(j) ==
    /\ pc[j] = "sleep" /\ running = 0
    /\ attempt[j] = MaxPollAttempts
    /\ Goto(j, "hf")
    /\ UNCHANGED <<redisClient, redisUp, storeVars, files, nextId, attempt,
                   submitCalls, hfCalls, mockCalls, tier, taskId,
                   lastCreate, chat>>

\* download_vidu_video: the request fails (no file touched), the write fails
\* (a truncated file is left), or the file holds the provider's bytes.
Download(j) ==
    /\ pc[j] = "download" /\ running = j
    /\ \/ /\ Goto(j, "hf")
          /\ UNCHANGED <<files, tier>>
       \/ /\ files' = [files EXCEPT ![j] = "partial"]
          /\ Goto(j, "hf")
          /\ UNCHANGED tier
       \/ /\ files' = [files EXCEPT ![j] = "vidu"]
          /\ tier' = [tier EXCEPT ![j] = "tier1"]
          /\ Goto(j, "vidu_done")
    /\ UNCHANGED <<redisClient, redisUp, storeVars, nextId, attempt,
                   submitCalls, hfCalls, mockCalls, taskId,
                   lastCreate, chat>>

\* The completed update without its status field.
CompletedWithoutStatus(message, url) ==
    [message |-> message, video_url |-> url, video_path |-> "videos/job_id.mp4"]
\* The updates of lines 436-441, 554-559 and 577-582.
Completed(message, url) ==
    [status |-> "completed", message |-> message, video_url |-> url,
     video_path |-> "videos/job_id.mp4"]

\* Lines 434-442.
ViduComplete(j) ==
    /\ pc[j] = "vidu_done" /\ running = j
    /\ UpdateJobData(j, Completed("Video generated successfully!", "public"))
    /\ Goto(j, "done")
    /\ UNCHANGED <<redisClient, files, nextId, attempt, submitCalls, hfCalls,
                   mockCalls, tier, taskId,
                   lastCreate, chat>>

\* use_huggingface_fallback, lines 524-530: import and login may raise.
HfStart(j) ==
    /\ pc[j] = "hf" /\ running = j
    /\ hfCalls' = [hfCalls EXCEPT ![j] = @ + 1]
    /\ \/ /\ Goto(j, "mock")
          /\ UNCHANGED <<redisUp, storeVars>>
       \/ /\ UpdateJobData(j, [message |-> "Using HuggingFace model..."])
          /\ Goto(j, "hf_predict")
    /\ UNCHANGED <<redisClient, files, nextId, attempt, submitCalls, mockCalls,
                   tier, taskId,
                   lastCreate, chat>>

\* Lines 532-552 and 560-565: predict raises, or its result is no file, or
\* the copy raises half way, or the copy is made.
HfPredict(j) ==
    /\ pc[j] = "hf_predict" /\ running = j
    /\ \/ /\ Goto(j, "mock")
          /\ UNCHANGED <<files, tier>>
       \/ /\ files' = [files EXCEPT ![j] = "partial"]
          /\ Goto(j, "mock")
          /\ UNCHANGED tier
       \/ /\ files' = [files EXCEPT ![j] = "hf"]
          /\ tier' = [tier EXCEPT ![j] = "tier2"]
          /\ Goto(j, "hf_done")
    /\ UNCHANGED <<redisClient, redisUp, storeVars, nextId, attempt,
                   submitCalls, hfCalls, mockCalls, taskId,
                   lastCreate, chat>>

\* The completed update followed by the except clause of line 563.
HfCompleteThenFallback(j) ==
    /\ pc[j] = "hf_done" /\ running = j
    /\ UpdateJobData(j, Completed("Video generated successfully!", "local"))
    /\ Goto(j, "mock")
    /\ UNCHANGED <<redisClient, files, nextId, attempt, submitCalls, hfCalls,
                   mockCalls, tier, taskId,
                   lastCreate, chat>>
\* Lines 554-559.
HfComplete(j) ==
    /\ pc[j] = "hf_done" /\ running = j
    /\ UpdateJobData(j, Completed("Video generated successfully!", "local"))
    /\ Goto(j, "done")
    /\ UNCHANGED <<redisClient, files, nextId, attempt, submitCalls, hfCalls,
                   mockCalls, tier, taskId,
                   lastCreate, chat>>

\* The except clause of line 586 taken after a good copy as well.
AfterMockAlwaysFails(outcome) == "mock_failed"
\* use_mock_video_fallback, lines 570-575 and 583-586.
AfterMock(outcome) == IF outcome = "ok" THEN "mock_done" ELSE "mock_failed"
\* shutil.copy2 to a path that is not the job's file.
MockFileNotWritten(j, outcome) == files[j]
\* The job's file after the copy of lines 574-575.
MockFile(j, outcome) ==
    CASE outcome = "ok" -> "mock"
      [] outcome = "copy_error" -> "partial"
      [] OTHER -> files[j]

MockCopy(j) ==
    /\ pc[j] = "mock" /\ running = j
    /\ mockCalls' = [mockCalls EXCEPT ![j] = @ + 1]
    /\ \E outcome \in CopyOutcomes :
          /\ files' = [files EXCEPT ![j] = MockFile(j, outcome)]
          /\ tier' = [tier EXCEPT ![j] = IF outcome = "ok" THEN "tier3" ELSE "failed"]
          /\ Goto(j, AfterMock(outcome))
    /\ UNCHANGED <<redisClient, redisUp, storeVars, nextId, attempt,
                   submitCalls, hfCalls, taskId,
                   lastCreate, chat>>

\* Lines 577-582.
MockComplete(j) ==
    /\ pc[j] = "mock_done" /\ running = j
    /\ UpdateJobData(j, Completed("Demo video ready (using placeholder)", "local"))
    /\ Goto(j, "done")
    /\ UNCHANGED <<redisClient, files, nextId, attempt, submitCalls, hfCalls,
                   mockCalls, tier, taskId,
                   lastCreate, chat>>

\* Lines 586-591.
MockError(j) ==
    /\ pc[j] = "mock_failed" /\ running = j
    /\ UpdateJobData(j, [status |-> "error",
                         message |-> "All video generation methods failed",
                         video_url |-> None])
    /\ Goto(j, "done")
    /\ UNCHANGED <<redisClient, files, nextId, attempt, submitCalls, hfCalls,
                   mockCalls, tier, taskId,
                   lastCreate, chat>>

Task(j) ==
    \/ Start(j)
    \/ Submit(j)
    \/ Poll(j)
    \/ PollTimeout(j)
    \/ Download(j)
    \/ ViduComplete(j)
    \/ HfStart(j)
    \/ HfPredict(j)
    \/ HfComplete(j)
    \/ MockCopy(j)
    \/ MockComplete(j)
    \/ MockError(j)

\* ------------------------------------------------------------ environment
\* The Redis server becomes unreachable, or reachable again.
RedisDown ==
    /\ redisClient /\ redisUp
    /\ redisUp' = FALSE
    /\ UNCHANGED <<redisClient, storeVars, files, nextId, taskVars, lastCreate>>

RedisRecover ==
    /\ redisClient /\ ~redisUp
    /\ redisUp' = TRUE
    /\ UNCHANGED <<redisClient, storeVars, files, nextId, taskVars, lastCreate>>

\* The TTL of setex (3600 s) runs out: Redis drops the key.
Expire(j) ==
    /\ j \in DOMAIN redis
    /\ redis' = [k \in (DOMAIN redis) \ {j} |-> redis[k]]
    /\ UNCHANGED <<redisClient, redisUp, mem, files, nextId, taskVars, lastCreate>>

\* Someone outside the program removes the artifact ./videos/<job_id>.mp4.
\* (A truncated file left by a failed tier is not followed: the next tier
\* overwrites it, and no handler serves it.)
Tiers == {"tier1", "tier2", "tier3"}

RemoveFile(j) ==
    /\ files[j] # None
    /\ tier[j] \in Tiers
    /\ files' = [files EXCEPT ![j] = None]
    /\ UNCHANGED <<redisClient, redisUp, storeVars, nextId, taskVars, lastCreate>>

Next ==
    \/ \E p \in Prompts : GenerateVideo(p)
    \/ \E j \in JobIds : GetStatus(j)
    \/ \E j \in JobIds : DownloadVideo(j)
    \/ \E j \in JobIds : Task(j)
    \/ RedisDown
    \/ RedisRecover

\* Next, and what else the outside does to the stored data: Redis keys
\* expire and artifact files are removed.
NextEnv ==
    \/ Next
    \/ \E j \in JobIds : Expire(j)
    \/ \E j \in JobIds : RemoveFile(j)

Spec == Init /\ [][Next]_vars

\* ------------------------------------------------------ the chat bot's jobs
\* Prompts the webhook passes on: stripped, five characters or more.
WaPrompts == {<<"a", "b", "c", "d", "e">>}

\* Lines 297-303.
WaRecord(p) ==
    [status |-> "processing", message |-> "Processing request...",
     video_url |-> None, video_path |-> None, prompt |-> p,
     user_phone |-> "whatsapp:user"]

\* handle_whatsapp_video_generation, lines 288-307: the acknowledgment is
\* sent, the record is stored, and the task sleeps.
WaCreate(p) ==
    /\ running = 0
    /\ nextId \in JobIds
    /\ redis' = StoreRedis(nextId, WaRecord(p), redisUp)
    /\ mem' = StoreMem(nextId, WaRecord(p), redisUp)
    /\ pc' = [pc EXCEPT ![nextId] = "wa_sleep"]
    /\ chat' = [chat EXCEPT ![nextId] = "ack"]
    /\ nextId' = nextId + 1
    /\ UNCHANGED <<redisClient, redisUp, files, running, attempt, taskId,
                   submitCalls, hfCalls, mockCalls, tier, lastCreate>>

\* Lines 308-311, then 383-396: the progress message is sent and
\* video_generation_process is entered.
WaStart(j) ==
    /\ pc[j] = "wa_sleep"
    /\ running = 0
    /\ chat' = [chat EXCEPT ![j] = "working"]
    /\ UpdateJobData(j, [message |-> "Connecting to Vidu AI model...",
                         status |-> "processing"])
    /\ \E hasKey \in BOOLEAN : Goto(j, IF hasKey THEN "submit" ELSE "hf")
    /\ UNCHANGED <<redisClient, files, nextId, attempt, submitCalls, hfCalls,
                   mockCalls, tier, taskId, lastCreate>>

\* The outcome reported by what the orchestration produced, not by the record.
NotifyKindByArtifact(j) == IF tier[j] \in Tiers THEN "success" ELSE "failure"
\* Lines 314-333: the record is read and one of the two outcomes is sent.
NotifyKind(j) ==
    IF Found(j) /\ GetJobData(j).status = "completed"
    THEN "success" ELSE "failure"

WaNotify(j) ==
    /\ pc[j] = "wa_notify" /\ running = j
    /\ chat' = [chat EXCEPT ![j] = NotifyKind(j)]
    /\ pc' = [pc EXCEPT ![j] = "done"]
    /\ running' = 0
    /\ UNCHANGED <<redisClient, redisUp, storeVars, files, nextId, attempt,
                   submitCalls, hfCalls, mockCalls, tier, taskId, lastCreate>>

\* The task of a chat bot job: video_generation_process awaited between the
\* two halves of handle_whatsapp_video_generation.
WaTask(j) ==
    \/ WaStart(j)
    \/ Submit(j)
    \/ Poll(j)
    \/ PollTimeout(j)
    \/ Download(j)
    \/ ViduComplete(j)
    \/ HfStart(j)
    \/ HfPredict(j)
    \/ HfComplete(j)
    \/ MockCopy(j)
    \/ MockComplete(j)
    \/ MockError(j)
    \/ WaNotify(j)

NextWa ==
    \/ \E p \in WaPrompts : WaCreate(p)
    \/ \E j \in JobIds : WaTask(j)
    \/ \E j \in JobIds : GetStatus(j)
    \/ \E j \in JobIds : DownloadVideo(j)
    \/ RedisDown
    \/ RedisRecover

SpecWa == Init /\ [][NextWa]_vars

\* ------------------------------------------------- the job store on its own
\* store_job_data and update_job_data applied to any job id in any order,
\* with partial updates the program passes (lines 530 and 577-582), while the
\* Redis server comes and goes and keys expire.
JobUpdates ==
    { [message |-> "Using HuggingFace model..."],
      Completed("Demo video ready (using placeholder)", "local") }

\* store_job_data(job_id, job_data) for a fresh job id.
StoreJob(k) ==
    /\ k \notin DOMAIN redis /\ k \notin DOMAIN mem
    /\ \E p \in {q \in Prompts : Strip(q) # <<>>} :
          /\ redis' = StoreRedis(k, InitialRecord(p), redisUp)
          /\ mem' = StoreMem(k, InitialRecord(p), redisUp)
    /\ UNCHANGED <<redisClient, redisUp, files, nextId, taskVars, lastCreate>>

\* update_job_data(job_id, updates)
MergeJob(k, updates) ==
    /\ UpdateJobData(k, updates)
    /\ UNCHANGED <<redisClient, files, nextId, taskVars, lastCreate>>

NextStore ==
    \/ \E k \in StoreJobIds : StoreJob(k)
    \/ \E k \in StoreJobIds : \E updates \in JobUpdates : MergeJob(k, updates)
    \/ \E k \in StoreJobIds : Expire(k)
    \/ RedisDown
    \/ RedisRecover

SpecStore == Init /\ [][NextStore]_vars

SpecEnv == Init /\ [][NextEnv]_vars

\* ================================================================= claims
Created(j) == pc[j] # "none"
Finished(j) == pc[j] = "done"
\* A prompt with no character other than whitespace.
IsBlank(p) == \A i \in 1..Len(p) : p[i] \in Whitespace
\* The bytes each tier puts into the job's file.
ArtifactOf(t) ==
    CASE t = "tier1" -> "vidu" [] t = "tier2" -> "hf" [] t = "tier3" -> "mock"
      [] OTHER -> None

\* A handler can run in this state and in the next one.
LoopFree == running = 0 /\ running' = 0

\* C1: once get_status answers completed or error for a job, a get_status
\* for that job one step later does not answer processing.
C1_StatusNeverRegresses ==
    [][\A j \in JobIds :
          (LoopFree /\ StatusResponse(j).status \in Terminal)
              => StatusResponse(j)'.status # "processing"]_vars

\* C2: once a job's orchestration has run to its end, a backing store holds
\* the job's record with status completed or error.
C2_FinishedJobHasTerminalRecord ==
    \A j \in JobIds :
        Finished(j) =>
            \/ j \in DOMAIN redis /\ redis[j].status \in Terminal
            \/ j \in DOMAIN mem /\ mem[j].status \in Terminal

\* C3: whatever the Redis server did between creation and the end of the
\* orchestration, a get_status after the end answers completed or error.
C3_OutageKeepsTerminalUpdate ==
    \A j \in JobIds :
        (Finished(j) /\ running = 0) => StatusResponse(j).status \in Terminal

\* C4: get_status of a created job answers with the job's record, never with
\* 404, whether or not the Redis server is reachable during the call.
C4_CreatedJobIsAlwaysFound ==
    \A j \in JobIds :
        (Created(j) /\ running = 0) => StatusResponse(j).code = 200

\* C5: generate_video with a non-blank prompt stores the record and returns
\* before the job's task has run or any provider was called, and a get_status
\* right after it answers 200 with status processing.
C5_CreateAnswersProcessing ==
    [][\A p \in Prompts : \A j \in JobIds :
          (j = nextId /\ nextId' # nextId /\ ~IsBlank(p) /\ GenerateVideo(p)) =>
              /\ lastCreate' = 200
              /\ pc'[j] = "scheduled" /\ running' = 0
              /\ submitCalls'[j] = 0 /\ attempt'[j] = 0 /\ tier'[j] = None
              /\ StatusResponse(j)'.code = 200
              /\ StatusResponse(j)'.status = "processing"]_vars

C5_Witness ==
    \E j \in JobIds :
        /\ pc[j] = "scheduled" /\ lastCreate = 200 /\ ~redisUp
        /\ StatusResponse(j).status = "processing"

\* C6: generate_video with an empty or whitespace-only prompt answers 400 and
\* creates no record in either store and no task.
C6_BlankPromptCreatesNothing ==
    [][\A p \in Prompts :
          (IsBlank(p) /\ GenerateVideo(p)) =>
              /\ lastCreate' = 400
              /\ UNCHANGED <<redis, mem, pc, nextId, running, files>>]_vars

C6_Witness ==
    lastCreate = 400 /\ redis = <<>> /\ mem = <<>> /\ nextId = 1

\* C7: when all three tiers have failed, the job's record has status error
\* and no video_url, and download_video answers "not ready".
C7_AllTiersFailedIsError ==
    \A j \in JobIds :
        (Finished(j) /\ tier[j] = "failed" /\ running = 0) =>
            /\ StatusResponse(j).status = "error"
            /\ StatusResponse(j).video_url = None
            /\ DownloadResponse(j).code = 400

\* C8: when a tier has produced the artifact (and nobody removed the file),
\* the job's record has status completed and download_video serves the bytes
\* of that tier.
C8_SuccessServesTierArtifact ==
    \A j \in JobIds :
        (Finished(j) /\ tier[j] \in Tiers /\ files[j] # None /\ running = 0) =>
            /\ StatusResponse(j).status = "completed"
            /\ DownloadResponse(j).code = 200
            /\ DownloadResponse(j).detail = ArtifactOf(tier[j])

\* C9: once get_status answers completed or error for a job, every later
\* get_status answers the very same record.
C9_TerminalAnswerIsStable ==
    [][\A j \in JobIds :
          (LoopFree /\ StatusResponse(j).status \in Terminal)
              => StatusResponse(j)' = StatusResponse(j)]_vars

\* C10: a job whose Tier 1 submission failed (no credential, exception,
\* non-200 answer, no task_id) made at most one submit request and no poll
\* request, and went on to Tier 2.
Tier1Labels == {"poll", "sleep", "download", "vidu_done"}

C10_FailedSubmitSkipsPolling ==
    \A j \in JobIds :
        /\ submitCalls[j] <= 1
        /\ (~taskId[j]) => (attempt[j] = 0 /\ pc[j] \notin Tier1Labels)

C10_Witness ==
    \E j \in JobIds :
        submitCalls[j] = 1 /\ ~taskId[j] /\ pc[j] = "hf_predict"

\* C11: when the polling loop has used all its attempts without a terminal
\* remote state, the job's next step is the Tier 2 fallback, the one a failed
\* poll leads to, and that step writes no record, no file and no artifact.
C11_PollTimeoutFallsBackToTier2 ==
    [][\A j \in JobIds :
          (pc[j] = "sleep" /\ attempt[j] = MaxPollAttempts /\ pc'[j] # pc[j]) =>
              /\ pc'[j] = AfterPoll("failed")
              /\ pc'[j] = "hf"
              /\ UNCHANGED <<redis, mem, files, tier>>]_vars

C11_Witness ==
    \E j \in JobIds :
        /\ taskId[j] /\ submitCalls[j] = 1
        /\ pc[j] = "sleep" /\ attempt[j] = MaxPollAttempts
        /\ ENABLED PollTimeout(j)

\* C12: download_video answers "Job ID not found" when get_job_data finds no
\* record; otherwise "Video not ready for download" when the status is not
\* completed; otherwise "Video file not found" when video_path is unset or
\* the file is gone; and the file only when none of these holds.
C12_DownloadErrorPrecedence ==
    \A j \in JobIds :
        LET r == DownloadResponse(j) IN
        /\ ~Found(j) => r.code = 404 /\ r.detail = "Job ID not found"
        /\ (Found(j) /\ GetJobData(j).status # "completed") =>
              r.code = 400 /\ r.detail = "Video not ready for download"
        /\ ( /\ Found(j) /\ GetJobData(j).status = "completed"
             /\ (GetJobData(j).video_path = None \/ files[j] = None) ) =>
              r.code = 404 /\ r.detail = "Video file not found"
        /\ ( /\ Found(j) /\ GetJobData(j).status = "completed"
             /\ GetJobData(j).video_path # None /\ files[j] # None ) =>
              r.code = 200 /\ r.detail = files[j]

C12_Witness ==
    \E j \in JobIds :
        /\ Found(j) /\ GetJobData(j).status = "completed" /\ files[j] = None
        /\ DownloadResponse(j).detail = "Video file not found"

\* The records the two stores hold for job j.
Records(j) == {s[j] : s \in {t \in {redis, mem} : j \in DOMAIN t}}
Tier1Pending == {"none", "scheduled", "submit"} \cup Tier1Labels
Tier2Labels == {"hf", "hf_predict", "hf_done"}

\* C13: each tier is invoked at most once per job; Tier 2 only once Tier 1
\* is over without an artifact; Tier 3 only after Tier 2 was invoked and is
\* over without an artifact; and once a record says completed the job's task
\* has ended.
C13_TiersInOrderAtMostOnce ==
    \A j \in JobIds :
        /\ submitCalls[j] <= 1 /\ hfCalls[j] <= 1 /\ mockCalls[j] <= 1
        /\ hfCalls[j] = 1 => (pc[j] \notin Tier1Pending /\ tier[j] # "tier1")
        /\ mockCalls[j] = 1 =>
              /\ hfCalls[j] = 1
              /\ pc[j] \notin Tier1Pending \cup Tier2Labels
              /\ tier[j] \notin {"tier1", "tier2"}
        /\ (\E r \in Records(j) : r.status = "completed") => pc[j] = "done"

C13_Witness ==
    \E j \in JobIds :
        /\ submitCalls[j] = 1 /\ hfCalls[j] = 1 /\ mockCalls[j] = 1
        /\ pc[j] = "done" /\ tier[j] = "tier3"
        /\ \E r \in Records(j) : r.status = "completed"

\* C14: a record has status error only when the placeholder copy of Tier 3
\* has failed, after Tier 1 and Tier 2 were tried and produced nothing.
C14_ErrorOnlyAfterTier3Failed ==
    \A j \in JobIds :
        (\E r \in Records(j) : r.status = "error") =>
            /\ tier[j] = "failed" /\ pc[j] = "done"
            /\ hfCalls[j] = 1 /\ mockCalls[j] = 1

C14_Witness ==
    \E j \in JobIds :
        /\ \E r \in Records(j) : r.status = "error"
        /\ tier[j] = "failed" /\ mockCalls[j] = 1

\* What the loop does next, by the claim: the fetch after "success" with an
\* artifact, the end of the loop after "failed", another wait otherwise.
ClaimedAfterPoll(outcome) ==
    CASE outcome = "success_url" -> "download"
      [] outcome = "failed" -> "hf"
      [] OTHER -> "sleep"

\* C15 (as claimed): "success" with an artifact ends the loop with the fetch,
\* "failed" ends it with no result, and every other response, "success"
\* without an artifact included, makes the loop wait and poll again.
C15_PollClassification ==
    [][\A j \in JobIds : \A o \in PollOutcomes :
          (attempt'[j] # attempt[j] /\ PollStep(j, o)) =>
              pc'[j] = ClaimedAfterPoll(o)]_vars

\* What the loop does next, by the amended claim.
AmendedAfterPoll(outcome) ==
    CASE outcome = "success_url" -> "download"
      [] outcome \in {"failed", "success_empty", "success_no_url"} -> "hf"
      [] OTHER -> "sleep"

\* C15 (amended): "success" with an artifact url ends the loop with the
\* fetch; "failed", and "success" without an artifact or without its url, end
\* the loop at once with no result; every other response (other states,
\* non-200 answers, request exceptions) makes the loop wait and poll again.
C15_PollClassificationAmended ==
    [][\A j \in JobIds : \A o \in PollOutcomes :
          (attempt'[j] # attempt[j] /\ PollStep(j, o)) =>
              pc'[j] = AmendedAfterPoll(o)]_vars

C15_Witness ==
    \E j \in JobIds :
        /\ taskId[j] /\ pc[j] = "hf"
        /\ attempt[j] >= 1 /\ attempt[j] < MaxPollAttempts

\* C16: poll_vidu_task makes at most MaxPollAttempts status requests whatever
\* the responses are, and once it has made them all without a terminal
\* response it makes no further request and returns.
C16_PollingIsBounded ==
    \A j \in JobIds :
        /\ attempt[j] <= MaxPollAttempts
        /\ (pc[j] = "sleep" /\ attempt[j] = MaxPollAttempts /\ running = 0) =>
              (~ENABLED Poll(j) /\ ENABLED PollTimeout(j))

C16_Witness ==
    \E j \in JobIds :
        attempt[j] = MaxPollAttempts /\ pc[j] \in Tier2Labels /\ hfCalls[j] = 1

\* The messages written before the job reaches a tier's attempt.
StartedMessages == {"Video generation has started"}
Tier1Message == "Connecting to Vidu AI model..."
Tier2Message == "Using HuggingFace model..."
Tier3Labels == {"mock", "mock_done", "mock_failed"}

\* C17: the message of a job's record tells the tier being attempted: it is
\* the Tier 1 message while Tier 1 runs, the Tier 2 message while Tier 2 runs,
\* and during Tier 3 it is no longer a message of an earlier stage.
C17_MessageNamesCurrentTier ==
    \A j \in JobIds :
        Found(j) =>
            /\ pc[j] \in {"submit"} \cup Tier1Labels =>
                  GetJobData(j).message = Tier1Message
            /\ pc[j] \in {"hf_predict", "hf_done"} =>
                  GetJobData(j).message = Tier2Message
            /\ pc[j] \in Tier3Labels =>
                  GetJobData(j).message
                      \notin StartedMessages \cup {Tier1Message, Tier2Message}

\* C18: a record whose status is not completed has neither a video_url nor a
\* video_path, in either store.
C18_ArtifactFieldsOnlyWhenCompleted ==
    \A j \in JobIds : \A r \in Records(j) :
        r.status # "completed" => (r.video_url = None /\ r.video_path = None)

C18_Witness ==
    \E j \in JobIds :
        /\ \E r \in Records(j) :
              r.status = "completed" /\ r.video_url # None /\ r.video_path # None
        /\ \E r \in Records(j) :
              r.status = "processing" /\ r.video_url = None /\ r.video_path = None

\* C20: whenever a record says completed, the job's file holds the whole
\* artifact of the tier that succeeded, so a download_video that finds the
\* record completed serves the file (nobody removing files).
C20_CompletedMeansFileWritten ==
    \A j \in JobIds :
        /\ \A r \in Records(j) :
              r.status = "completed" =>
                  (tier[j] \in Tiers /\ files[j] = ArtifactOf(tier[j]))
        /\ (Found(j) /\ GetJobData(j).status = "completed") =>
              (DownloadResponse(j).code = 200 /\ DownloadResponse(j).detail # "partial")

C20_Witness ==
    \E j \in JobIds :
        /\ Found(j) /\ GetJobData(j).status = "completed"
        /\ tier[j] = "tier1" /\ DownloadResponse(j).detail = "vidu"

\* Store f holds for job i after the step what it held before.
SameEntry(f, g, i) ==
    /\ i \in DOMAIN g <=> i \in DOMAIN f
    /\ i \in DOMAIN f => g[i] = f[i]
\* Record r is record cur with the fields of updates set and no other change.
UpdatedFrom(cur, updates, r) ==
    /\ DOMAIN r = DOMAIN cur
    /\ \A f \in DOMAIN cur \ DOMAIN updates : r[f] = cur[f]
    /\ \A f \in DOMAIN cur \cap DOMAIN updates : r[f] = updates[f]

\* C19: update_job_data(k, updates) leaves the records of every other job as
\* they are in both stores; when get_job_data finds no record of k it changes
\* neither store; otherwise each store keeps its entry of k or holds the
\* record read with the fields of updates set and every other field (prompt
\* among them) as it was, and at least one store holds that record.
C19_UpdateChangesOnlyNamedFields ==
    [][\A k \in StoreJobIds : \A u \in JobUpdates :
          MergeJob(k, u) =>
              /\ \A i \in StoreJobIds \ {k} :
                    SameEntry(redis, redis', i) /\ SameEntry(mem, mem', i)
              /\ ~Found(k) => UNCHANGED <<redis, mem>>
              /\ Found(k) =>
                    /\ \/ SameEntry(redis, redis', k)
                       \/ /\ k \in DOMAIN redis'
                          /\ UpdatedFrom(GetJobData(k), u, redis'[k])
                    /\ \/ SameEntry(mem, mem', k)
                       \/ /\ k \in DOMAIN mem'
                          /\ UpdatedFrom(GetJobData(k), u, mem'[k])
                    /\ \E r \in {s[k] : s \in {t \in {redis', mem'} : k \in DOMAIN t}} :
                          UpdatedFrom(GetJobData(k), u, r)]_vars

C19_Witness ==
    \E k \in StoreJobIds : \E i \in StoreJobIds \ {k} :
        /\ Found(k) /\ GetJobData(k).status = "completed"
        /\ GetJobData(k).message = "Using HuggingFace model..."
        /\ GetJobData(k).prompt = <<" ", "a", "\t">>
        /\ Found(i) /\ GetJobData(i).status = "processing"
        /\ GetJobData(i).message = "Video generation has started"

ChatOutcomes == {"success", "failure"}

\* C21: a chat bot job's outcome is reported only when its orchestration has
\* ended, it is the success notification exactly when the record read at
\* that moment has status completed and the failure notification otherwise,
\* and once one outcome is reported the other never is.
C21_OneOutcomeAfterOrchestration ==
    /\ [](\A j \in JobIds :
            chat[j] \in ChatOutcomes =>
                (pc[j] = "done" /\ hfCalls[j] + submitCalls[j] >= 1))
    /\ [][\A j \in JobIds :
            /\ chat[j] \in ChatOutcomes => chat'[j] = chat[j]
            /\ (chat'[j] \in ChatOutcomes /\ chat[j] \notin ChatOutcomes) =>
                  /\ pc[j] = "wa_notify"
                  /\ chat'[j] = "success" <=>
                        (Found(j) /\ GetJobData(j).status = "completed")]_vars

C21_Witness ==
    \E j \in JobIds :
        /\ chat[j] = "success" /\ pc[j] = "done" /\ tier[j] \in Tiers
        /\ Found(j) /\ GetJobData(j).status = "completed"

====
